---- MODULE Spec2Model ----
(***************************************************************************)
(* A model of src/octree/batch_iterator.rs: the batch accumulator          *)
(* (PointStream) and BatchIterator::try_for_each_batch, which spawns one   *)
(* scoped worker thread per (octree, node) work item, each feeding a       *)
(* bounded std::sync::mpsc::sync_channel, and consumes the channel on the  *)
(* calling thread with rx.iter().try_for_each(func).                       *)
(*                                                                         *)
(* A point is identified by <<w, i>>: the i-th point that points_in_node   *)
(* yields for work item w.  The only attribute of a point the code         *)
(* branches on is whether point.intensity is Some, so nodes[w][i] is that  *)
(* flag.  The position, color and intensity buffers hold point identities, *)
(* so that the content of a layer, not only its length, is tracked.        *)
(***************************************************************************)
EXTENDS Integers, Sequences, FiniteSets

\* ---------------------------------------------------------------- bounds
\* The most work items nodes_in_location yields over all octrees.
MaxNodes == 3
\* The most points points_in_node yields over all work items together.
MaxPoints == 3
\* The largest batch_size a call is made with (the smallest is 0).
MaxBatchSize == 2

\* mpsc::sync_channel(100)
ChannelCapacity == 100

VARIABLES
    nodes,       \* node_id_vec with, per work item, what points_in_node yields
    batch_size,  \* BatchIterator.batch_size
    spawned,     \* number of work items the spawn loop has gone through
    wpc,         \* per worker: where its closure stands
    next,        \* per worker: index of the next point of point_iterator
    position,    \* per worker: PointStream.position
    color,       \* per worker: PointStream.color
    intensity,   \* per worker: PointStream.intensity
    capacity,    \* per worker: PointStream.position.capacity()
    pending,     \* per worker: the PointData handed to send_func
    sent,        \* per worker: the batches tx_thread.send accepted, in order
    chan,        \* the batches queued in the sync_channel
    rxAlive,     \* the Receiver rx has not been dropped
    txAlive,     \* the Sender tx of the scope closure has not been dropped
    cpc,         \* where the calling thread stands
    cur,         \* the batch rx.iter() handed to try_for_each
    delivered,   \* the batches func was called with, in order
    results,     \* what func returned, in order
    result,      \* the value of the scope closure
    outcome,     \* how try_for_each_batch ended
    global_from_local,  \* PointQuery.global_from_local: <<>> or <<isometry>>
    local_from_global,  \* PointStream.local_from_global, likewise
    tpc,         \* where the computation of one position stands
    emitted      \* <<>>, or <<the point push_point took and what it pushed>>

callVars == <<nodes, batch_size, spawned, wpc, next, position, color, intensity,
              capacity, pending, sent, chan, rxAlive, txAlive, cpc, cur,
              delivered, results, result, outcome>>

\* The coordinate frame of the query and what push_point makes of a position.
transformVars == <<global_from_local, local_from_global, tpc, emitted>>

vars == <<callVars, transformVars>>

workerVars == <<wpc, next, position, color, intensity, capacity, pending, sent>>

Max(a, b) == IF a >= b THEN a ELSE b

RECURSIVE SumLens(_)
SumLens(s) == IF s = <<>> THEN 0 ELSE Len(Head(s)) + SumLens(Tail(s))

\* What points_in_node can yield for one node: a finite sequence of points,
\* each with or without an intensity.
NodePoints == UNION {[1..n -> BOOLEAN] : n \in 0..MaxPoints}

\* The work lists: one entry per (octree, node) pair of nodes_in_location.
WorkLists ==
    {wl \in UNION {[1..k -> NodePoints] : k \in 0..MaxNodes} :
        SumLens(wl) <= MaxPoints}

\* One node with enough points, in batches of 1, to fill the channel and
\* leave its worker with batches still to send.
FullChannelWorkList == <<[i \in 1..(ChannelCapacity + 2) |-> FALSE]>>

\* What a call can be made with: the work list and the batch size.
Configs ==
    (WorkLists \X (0..MaxBatchSize)) \cup {<<FullChannelWorkList, 1>>}

Workers == 1..Len(nodes)

\* The PointData of no point: what cur and pending hold when they hold nothing.
NoBatch == [position |-> <<>>, layers |-> <<>>]

\* A PointStream whose buffers are allocated one element too large.
InitialCapacityOffByOne(bs) == bs + 1

\* Vec::with_capacity(num_points_per_batch)
InitialCapacity(bs) == bs

\* Vec::push on a full vector reallocates.  The new capacity is the
\* allocator's amortized growth, max(2 * cap, len + 1), which the standard
\* library of later toolchains also raises to a minimum of 4 elements.
GrownCapacities(cap, len) ==
    {Max(2 * cap, len + 1), Max(Max(2 * cap, len + 1), 4)}

\* ------------------------------------------------------------ PointStream

\* A push_point that puts the new position in front.
PushPositionFront(buf, p) == <<p>> \o buf

\* push_point: self.position.push(position)
PushPosition(buf, p) == Append(buf, p)

\* A push_point that forgets the color.
PushColorSkipped(buf, p) == buf

\* push_point: self.color.push(Vector4::new(..))
PushColor(buf, p) == Append(buf, p)

\* push_point: if let Some(point_intensity) = point.intensity { push }
PushIntensity(buf, p, has) == IF has THEN Append(buf, p) ELSE buf

\* The capacities position can have after a push onto len elements.
CapacitiesAfterPush(cap, len) ==
    IF len = cap THEN GrownCapacities(cap, len) ELSE {cap}

\* A callback without the early return.
FlushNeverNoop(pos) == FALSE

\* callback: if self.position.is_empty() { return Ok(()) }
FlushIsNoop(pos) == pos = <<>>

\* callback: the layers map; color always, intensity when any was pushed.
Layers(col, int) ==
    IF int # <<>>
    THEN [l \in {"color", "intensity"} |-> IF l = "color" THEN col ELSE int]
    ELSE [l \in {"color"} |-> col]

\* callback: the PointData built from the three buffers.
MakePointData(pos, col, int) == [position |-> pos, layers |-> Layers(col, int)]

\* A callback that copies the buffers without draining them.
SplitOffKeepsAll(buf) == buf

\* split_off(0) leaves the buffer empty, its capacity unchanged.
SplitOffRest(buf) == <<>>

\* A capacity test that fires one point late.
BufferFullOneLate(len, cap) == len = cap + 1

\* push_point_and_callback: if self.position.len() == self.position.capacity()
BufferFull(len, cap) == len = cap

\* ---------------------------------------------------------------- channel

Terminated == {"done", "cancelled", "panicked"}

\* A Sender is alive: tx itself, or the tx_thread clone of a worker whose
\* closure has not ended (a clone exists once the spawn loop made it).
SendersAlive ==
    \/ txAlive
    \/ \E w \in Workers : w <= spawned /\ wpc[w] \notin Terminated

\* SyncSender::send returns Err once the Receiver is dropped.
SendFails == ~rxAlive

\* A channel that takes every send at once (mpsc::channel).
SendNeverBlocks == FALSE

\* SyncSender::send blocks while the buffer holds its capacity.
SendBlocks == Len(chan) >= ChannelCapacity

\* Receiver::iter ends when the channel is empty and every Sender is gone.
RecvDisconnected == chan = <<>> /\ ~SendersAlive

\* What func can return for a batch.
OnBatchResults == {"Ok", "Err"}

\* A consumer loop that goes on whatever func returns (for_each).
TryForEachIgnoresErr(r) == TRUE

\* Iterator::try_for_each goes on to the next item on Ok only.
TryForEachContinues(r) == r = "Ok"

\* ------------------------------------------------------------------- Init

Init ==
    /\ \E c \in Configs : nodes = c[1] /\ batch_size = c[2]
    /\ spawned = 0
    /\ wpc = [w \in Workers |-> "unspawned"]
    /\ next = [w \in Workers |-> 1]
    /\ position = [w \in Workers |-> <<>>]
    /\ color = [w \in Workers |-> <<>>]
    /\ intensity = [w \in Workers |-> <<>>]
    /\ capacity = [w \in Workers |-> 0]
    /\ pending = [w \in Workers |-> NoBatch]
    /\ sent = [w \in Workers |-> <<>>]
    /\ chan = <<>>
    /\ rxAlive = TRUE
    /\ txAlive = TRUE
    /\ cpc = "spawn"
    /\ cur = NoBatch
    /\ delivered = <<>>
    /\ results = <<>>
    /\ result = "none"
    /\ outcome = "running"
    /\ global_from_local = <<>>
    /\ local_from_global = <<>>
    /\ tpc = "idle"
    /\ emitted = <<>>

\* ---------------------------------------------------------------- workers

\* for (node_id, octree) in node_id_vec { tx.clone(); s.spawn(..) }, and in the
\* new thread PointStream::new(bs, ..).
Spawn ==
    /\ cpc = "spawn"
    /\ spawned < Len(nodes)
    /\ spawned' = spawned + 1
    /\ wpc' = [wpc EXCEPT ![spawned + 1] = "iter"]
    /\ capacity' = [capacity EXCEPT ![spawned + 1] = InitialCapacity(batch_size)]
    /\ UNCHANGED <<transformVars,
                   nodes, batch_size, next, position, color, intensity, pending,
                   sent, chan, rxAlive, txAlive, cpc, cur, delivered, results,
                   result, outcome>>

\* The spawn loop is over: the calling thread goes on to rx.iter().
SpawnDone ==
    /\ cpc = "spawn"
    /\ spawned = Len(nodes)
    /\ cpc' = "recv"
    /\ UNCHANGED <<transformVars,
                   nodes, batch_size, spawned, workerVars, chan, rxAlive,
                   txAlive, cur, delivered, results, result, outcome>>

\* Workers that all push into the accumulator of the first one.
SharedAccumulator(w) == 1

\* let mut point_stream = PointStream::new(..) in the worker's own closure:
\* the accumulator worker w pushes into.
Accumulator(w) == w

\* One turn of `for point in point_iterator`: push_point_and_callback(point)
\* up to the call of send_func.
WorkerPush(w) ==
    /\ wpc[w] = "iter"
    /\ next[w] <= Len(nodes[w])
    /\ LET a == Accumulator(w)
           p == <<w, next[w]>>
           pos == PushPosition(position[a], p)
           col == PushColor(color[a], p)
           int == PushIntensity(intensity[a], p, nodes[w][next[w]])
       IN \E cap \in CapacitiesAfterPush(capacity[a], Len(position[a])) :
            /\ capacity' = [capacity EXCEPT ![a] = cap]
            /\ next' = [next EXCEPT ![w] = @ + 1]
            /\ IF BufferFull(Len(pos), cap) /\ ~FlushIsNoop(pos)
               THEN /\ pending' = [pending EXCEPT ![w] = MakePointData(pos, col, int)]
                    /\ position' = [position EXCEPT ![a] = SplitOffRest(pos)]
                    /\ color' = [color EXCEPT ![a] = SplitOffRest(col)]
                    /\ intensity' = [intensity EXCEPT ![a] = SplitOffRest(int)]
                    /\ wpc' = [wpc EXCEPT ![w] = "send"]
               ELSE /\ position' = [position EXCEPT ![a] = pos]
                    /\ color' = [color EXCEPT ![a] = col]
                    /\ intensity' = [intensity EXCEPT ![a] = int]
                    /\ UNCHANGED <<pending, wpc>>
    /\ UNCHANGED <<transformVars,
                   nodes, batch_size, spawned, sent, chan, rxAlive, txAlive,
                   cpc, cur, delivered, results, result, outcome>>

\* point_iterator is exhausted: point_stream.callback() up to the call of
\* send_func, or to its Ok(()) when nothing is buffered.
WorkerFinalFlush(w) ==
    /\ wpc[w] = "iter"
    /\ next[w] > Len(nodes[w])
    /\ IF FlushIsNoop(position[w])
       THEN /\ wpc' = [wpc EXCEPT ![w] = "done"]
            /\ UNCHANGED <<pending, position, color, intensity>>
       ELSE /\ pending' = [pending EXCEPT ![w] =
                              MakePointData(position[w], color[w], intensity[w])]
            /\ position' = [position EXCEPT ![w] = SplitOffRest(position[w])]
            /\ color' = [color EXCEPT ![w] = SplitOffRest(color[w])]
            /\ intensity' = [intensity EXCEPT ![w] = SplitOffRest(intensity[w])]
            /\ wpc' = [wpc EXCEPT ![w] = "send_final"]
    /\ UNCHANGED <<transformVars,
                   nodes, batch_size, spawned, next, capacity, sent, chan,
                   rxAlive, txAlive, cpc, cur, delivered, results, result,
                   outcome>>

\* A worker that tries the same send again after an Err.
AfterSendErrRetries(pc) == pc

\* A point loop that ignores the Err of push_point_and_callback and goes on.
AfterSendErrContinues(pc) == IF pc = "send" THEN "iter" ELSE "panicked"

\* Where a worker goes when send_func returned Err: the point loop returns,
\* the final flush unwraps.
AfterSendErr(pc) == IF pc = "send" THEN "cancelled" ELSE "panicked"

\* Where a worker goes when send_func returned Ok.
AfterSendOk(pc) == IF pc = "send" THEN "iter" ELSE "done"

\* A worker that calls func on its batch itself instead of sending it.
WorkerCallsFunc(w) ==
    /\ wpc[w] \in {"send", "send_final"}
    /\ delivered' = Append(delivered, pending[w])
    /\ results' = Append(results, "Ok")
    /\ sent' = [sent EXCEPT ![w] = Append(@, pending[w])]
    /\ wpc' = [wpc EXCEPT ![w] = AfterSendOk(wpc[w])]
    /\ pending' = [pending EXCEPT ![w] = NoBatch]
    /\ UNCHANGED <<transformVars,
                   nodes, batch_size, spawned, next, position, color, intensity,
                   capacity, chan, rxAlive, txAlive, cpc, cur, result, outcome>>

\* send_func: tx_thread.send(batch), and what the caller does with its result.
WorkerSend(w) ==
    /\ wpc[w] \in {"send", "send_final"}
    /\ IF SendFails
       THEN /\ wpc' = [wpc EXCEPT ![w] = AfterSendErr(wpc[w])]
            /\ UNCHANGED <<chan, sent>>
       ELSE /\ ~SendBlocks
            /\ chan' = Append(chan, pending[w])
            /\ sent' = [sent EXCEPT ![w] = Append(@, pending[w])]
            /\ wpc' = [wpc EXCEPT ![w] = AfterSendOk(wpc[w])]
    /\ pending' = [pending EXCEPT ![w] = NoBatch]
    /\ UNCHANGED <<transformVars,
                   nodes, batch_size, spawned, next, position, color, intensity,
                   capacity, rxAlive, txAlive, cpc, cur, delivered, results,
                   result, outcome>>

\* --------------------------------------------------------------- consumer

\* rx.iter(): the next batch, or the end of the iteration.
ConsumerRecv ==
    /\ cpc = "recv"
    /\ IF chan # <<>>
       THEN /\ cur' = Head(chan)
            /\ chan' = Tail(chan)
            /\ cpc' = "on_batch"
            /\ UNCHANGED result
       ELSE /\ RecvDisconnected
            /\ cpc' = "exit"
            /\ result' = "Ok"
            /\ UNCHANGED <<cur, chan>>
    /\ UNCHANGED <<transformVars,
                   nodes, batch_size, spawned, workerVars, rxAlive, txAlive,
                   delivered, results, outcome>>

\* try_for_each(func): func(batch), and what try_for_each does with its result.
ConsumerOnBatch ==
    /\ cpc = "on_batch"
    /\ \E r \in OnBatchResults :
         /\ delivered' = Append(delivered, cur)
         /\ results' = Append(results, r)
         /\ IF TryForEachContinues(r)
            THEN cpc' = "recv" /\ UNCHANGED result
            ELSE cpc' = "exit" /\ result' = r
    /\ cur' = NoBatch
    /\ UNCHANGED <<transformVars,
                   nodes, batch_size, spawned, workerVars, chan, rxAlive,
                   txAlive, outcome>>

\* The scope closure returns: rx and tx are dropped, with what is queued.
ScopeBodyExit ==
    /\ cpc = "exit"
    /\ rxAlive' = FALSE
    /\ txAlive' = FALSE
    /\ chan' = <<>>
    /\ cpc' = "join"
    /\ UNCHANGED <<transformVars,
                   nodes, batch_size, spawned, workerVars, cur, delivered,
                   results, result, outcome>>

\* How the call ends: .expect(..) panics when a worker panicked.
CallOutcome(res, anyPanicked) == IF anyPanicked THEN "panicked" ELSE res

\* A call that returns without joining its threads (thread::spawn).
ReturnWithoutJoin ==
    /\ cpc = "join"
    /\ outcome' = CallOutcome(result, \E w \in Workers : wpc[w] = "panicked")
    /\ cpc' = "returned"
    /\ UNCHANGED <<transformVars,
                   nodes, batch_size, spawned, workerVars, chan, rxAlive,
                   txAlive, cur, delivered, results, result>>

\* crossbeam::scope joins every spawned thread, then .expect(..).
ScopeJoin ==
    /\ cpc = "join"
    /\ \A w \in Workers : wpc[w] \in Terminated
    /\ outcome' = CallOutcome(result, \E w \in Workers : wpc[w] = "panicked")
    /\ cpc' = "returned"
    /\ UNCHANGED <<transformVars,
                   nodes, batch_size, spawned, workerVars, chan, rxAlive,
                   txAlive, cur, delivered, results, result>>

Next ==
    \/ Spawn
    \/ SpawnDone
    \/ \E w \in Workers : WorkerPush(w)
    \/ \E w \in Workers : WorkerFinalFlush(w)
    \/ \E w \in Workers : WorkerSend(w)
    \/ ConsumerRecv
    \/ ConsumerOnBatch
    \/ ScopeBodyExit
    \/ ScopeJoin

Spec == Init /\ [][Next]_vars

\* Threads are scheduled fairly: a step that stays possible is taken.
Fairness ==
    /\ WF_vars(Spawn)
    /\ WF_vars(SpawnDone)
    /\ \A w \in 1..MaxNodes : WF_vars(w \in Workers /\ WorkerPush(w))
    /\ \A w \in 1..MaxNodes : WF_vars(w \in Workers /\ WorkerFinalFlush(w))
    /\ \A w \in 1..MaxNodes : WF_vars(w \in Workers /\ WorkerSend(w))
    /\ WF_vars(ConsumerRecv)
    /\ WF_vars(ConsumerOnBatch)
    /\ WF_vars(ScopeBodyExit)
    /\ WF_vars(ScopeJoin)

FairSpec == Spec /\ Fairness

\* -------------------------------------------------------------- transform
\* What push_point makes of one position, for every query frame.  Isometry3
\* is modelled as a rigid motion of the integer lattice: rot quarter turns
\* about the z axis, then a translation.

\* The largest coordinate, in absolute value, of a point and of a translation.
MaxCoord == 1

Coords == (-MaxCoord)..MaxCoord

Vectors == Coords \X Coords \X Coords

Isometries == [rot : 0..3, trans : Vectors]

RECURSIVE Rotate(_, _)
Rotate(k, v) == IF k = 0 THEN v ELSE Rotate(k - 1, <<-v[2], v[1], v[3]>>)

\* isometry * point
IsoApply(t, v) ==
    LET r == Rotate(t.rot, v)
    IN <<r[1] + t.trans[1], r[2] + t.trans[2], r[3] + t.trans[3]>>

\* Isometry3::inverse
IsoInverse(t) ==
    LET k == (4 - t.rot) % 4
        r == Rotate(k, t.trans)
    IN [rot |-> k, trans |-> <<-r[1], -r[2], -r[3]>>]

\* A call that hands global_from_local on as it is.
LocalFromGlobalNotInverted(g) == g

\* global_from_local.clone().map(|t| t.inverse())
LocalFromGlobal(g) == IF g = <<>> THEN <<>> ELSE <<IsoInverse(g[1])>>

\* push_point: the position pushed for a point at global position v.
TransformPosition(lfg, v) == IF lfg = <<>> THEN v ELSE IsoApply(lfg[1], v)

CallIdle ==
    /\ nodes = <<>> /\ batch_size = 0 /\ spawned = 0
    /\ wpc = <<>> /\ next = <<>> /\ position = <<>> /\ color = <<>>
    /\ intensity = <<>> /\ capacity = <<>> /\ pending = <<>> /\ sent = <<>>
    /\ chan = <<>> /\ rxAlive = TRUE /\ txAlive = TRUE /\ cpc = "spawn"
    /\ cur = NoBatch /\ delivered = <<>> /\ results = <<>>
    /\ result = "none" /\ outcome = "running"

TransformInit ==
    /\ CallIdle
    /\ global_from_local \in {<<>>} \cup {<<t>> : t \in Isometries}
    /\ local_from_global = <<>>
    /\ tpc = "start"
    /\ emitted = <<>>

\* try_for_each_batch: let local_from_global = ..
ComputeLocalFromGlobal ==
    /\ tpc = "start"
    /\ local_from_global' = LocalFromGlobal(global_from_local)
    /\ tpc' = "computed"
    /\ UNCHANGED <<callVars, global_from_local, emitted>>

\* push_point(point), for a point at any global position.
PushPointPosition ==
    /\ tpc = "computed"
    /\ \E v \in Vectors :
         emitted' = <<[global |-> v,
                       position |-> TransformPosition(local_from_global, v)]>>
    /\ tpc' = "pushed"
    /\ UNCHANGED <<callVars, global_from_local, local_from_global>>

TransformNext == ComputeLocalFromGlobal \/ PushPointPosition

TransformSpec == TransformInit /\ [][TransformNext]_vars

\* ----------------------------------------------------------------- claims

AllTerminated == \A w \in Workers : wpc[w] \in Terminated

OnBatchFailed == \E i \in 1..Len(results) : results[i] # "Ok"

\* Every worker has finished and every batch sent has been through func.
Drained == spawned = Len(nodes) /\ AllTerminated /\ chan = <<>> /\ cpc = "recv"

RECURSIVE Concat(_)
Concat(ss) == IF ss = <<>> THEN <<>> ELSE Head(ss) \o Concat(Tail(ss))

\* The points func was given, over all batches, in order.
DeliveredPoints == Concat([i \in 1..Len(delivered) |-> delivered[i].position])

\* The points points_in_node yields over all work items.
AllPoints == UNION {{<<w, i>> : i \in 1..Len(nodes[w])} : w \in Workers}

Range(f) == {f[x] : x \in DOMAIN f}

\* C1: when func never fails, the call eventually returns Ok.
C1_EventuallyReturnsOk == <>(OnBatchFailed \/ outcome = "Ok")

\* C2: when func never fails, once every worker has finished and the channel
\* is drained, the points given to func are the points the nodes yield, each
\* exactly once.
C2_AllPointsOnce ==
    (Drained /\ ~OnBatchFailed) =>
        /\ Len(DeliveredPoints) = SumLens(nodes)
        /\ Range(DeliveredPoints) = AllPoints

C2_Witness ==
    /\ Drained /\ ~OnBatchFailed
    /\ Len(nodes) >= 2
    /\ Len(delivered) >= 2
    /\ \E w \in Workers : Len(sent[w]) >= 2

\* C3: when func has failed, the call ends by returning that failure.
C3_ReturnsTheFailure == (OnBatchFailed /\ cpc = "returned") => outcome = "Err"

\* C4: once func has returned a failure, func is not called again.
C4_NoCallAfterFailure == [][OnBatchFailed => delivered' = delivered]_vars

C4_Witness == OnBatchFailed /\ chan # <<>> /\ \E w \in Workers : wpc[w] = "send"

\* A worker is inside tx_thread.send.
Sending == {"send", "send_final"}

\* Once func has returned a failure, every worker terminates and the call ends.
ReleasedAfterFailure == OnBatchFailed ~> (AllTerminated /\ cpc = "returned")

\* C5 as stated: once func has returned a failure, every send a worker
\* completes ends with an error, every worker terminates and the call ends.
C5_SendsFailAfterFailure ==
    /\ ReleasedAfterFailure
    /\ [][\A w \in Workers :
            (OnBatchFailed /\ wpc[w] \in Sending /\ wpc'[w] # wpc[w])
                => wpc'[w] \in {"cancelled", "panicked"}]_vars

\* C5 as amended: once func has returned a failure, every worker terminates
\* and the call ends; a worker blocked on the full channel stays blocked
\* until the receiver is dropped, and every send completed after the receiver
\* is dropped ends with an error and enqueues nothing.
C5_WorkersReleased ==
    /\ ReleasedAfterFailure
    /\ [][\A w \in Workers :
            (/\ OnBatchFailed /\ wpc[w] \in Sending /\ wpc'[w] # wpc[w]
             /\ (SendBlocks \/ ~rxAlive))
                => (/\ ~rxAlive
                    /\ wpc'[w] \in {"cancelled", "panicked"}
                    /\ sent'[w] = sent[w])]_vars

\* The channel was full when the receiver was dropped, and the worker left
\* with a batch to send was released with an error.
C5_Witness ==
    /\ OnBatchFailed /\ cpc = "returned"
    /\ \E w \in Workers :
          /\ wpc[w] = "cancelled"
          /\ Len(sent[w]) = Len(delivered) + ChannelCapacity

\* The batch sizes of C6: no batch given to func is larger than batch_size,
\* and of the batches one worker sent only the last can be smaller.
BatchSizesKept ==
    /\ \A i \in 1..Len(delivered) : Len(delivered[i].position) <= batch_size
    /\ \A w \in Workers : \A i \in 1..(Len(sent[w]) - 1) :
          Len(sent[w][i].position) = batch_size

\* C6 as stated: for every batch_size.
C6_BatchSizes == BatchSizesKept

\* C6 as amended: for every batch_size of at least 1.
C6_BatchSizesPositive == batch_size >= 1 => BatchSizesKept

C6_Witness ==
    /\ batch_size >= 1
    /\ \E w \in Workers :
          /\ Len(sent[w]) = 2
          /\ Len(sent[w][2].position) < batch_size
          /\ sent[w][2] \in Range(delivered)

\* C7: every batch given to func has a color layer as long as its position.
C7_ColorLayer ==
    \A i \in 1..Len(delivered) :
        /\ "color" \in DOMAIN delivered[i].layers
        /\ Len(delivered[i].layers["color"]) = Len(delivered[i].position)

C7_Witness ==
    \E i \in 1..Len(delivered) :
        /\ Len(delivered[i].position) >= 2
        /\ "intensity" \notin DOMAIN delivered[i].layers

\* C8: in every batch given to func the intensity layer is absent or as long
\* as its position.
C8_IntensityLayer ==
    \A i \in 1..Len(delivered) :
        "intensity" \in DOMAIN delivered[i].layers =>
            Len(delivered[i].layers["intensity"]) = Len(delivered[i].position)

\* C9: when no node yields a point, func is never called and the call
\* returns Ok: it has returned Ok or can still take a step.
C9_NoPointsReturnsOk ==
    SumLens(nodes) = 0 =>
        /\ delivered = <<>>
        /\ outcome \in {"running", "Ok"}
        /\ (outcome = "Ok" \/ ENABLED Next)

ThreePointsBatchTwo == SumLens(nodes) = 3 /\ batch_size = 2

\* Two batches, of 2 points and of 1, holding every point once.
TwoBatchesOfTwoAndOne ==
    /\ Len(delivered) = 2
    /\ {Len(delivered[i].position) : i \in 1..Len(delivered)} = {1, 2}
    /\ Len(DeliveredPoints) = 3
    /\ Range(DeliveredPoints) = AllPoints

\* C10 as stated: 3 points, batch size 2, func never failing: two batches, of
\* sizes 2 and 1, however the points lie in the nodes.
C10_TwoBatches ==
    (ThreePointsBatchTwo /\ Drained /\ ~OnBatchFailed) => TwoBatchesOfTwoAndOne

\* C10 as amended: the same when some node holds at least 2 of the 3 points.
C10_TwoBatchesSomeNodeHoldsTwo ==
    (/\ ThreePointsBatchTwo /\ Drained /\ ~OnBatchFailed
     /\ \E w \in Workers : Len(nodes[w]) >= 2) => TwoBatchesOfTwoAndOne

C10_Witness ==
    /\ ThreePointsBatchTwo /\ Drained /\ ~OnBatchFailed
    /\ \E w \in Workers : Len(nodes[w]) = 2
    /\ TwoBatchesOfTwoAndOne


\* C11: the channel never holds more than 100 batches; while it holds 100
\* and the receiver is alive, a worker inside send stays there and nothing is
\* enqueued.
C11_ChannelBounded ==
    /\ [](Len(chan) <= ChannelCapacity)
    /\ [][\A w \in Workers :
            (wpc[w] \in Sending /\ Len(chan) = ChannelCapacity /\ rxAlive)
                => (/\ wpc'[w] = wpc[w]
                    /\ sent'[w] = sent[w]
                    /\ Len(chan') <= Len(chan))]_vars

C11_Witness ==
    /\ Len(chan) = ChannelCapacity
    /\ rxAlive
    /\ \E w \in Workers : wpc[w] = "send" /\ next[w] <= Len(nodes[w])

\* The batches of work item w among the batches func was given, in order.
DeliveredOf(w) == SelectSeq(delivered, LAMBDA b : b.position[1][1] = w)

\* C12: for each worker, the points func was given form, in order, a prefix
\* of the points its node yields, and its batches reach func in the order
\* they were sent.
C12_PerWorkerOrder ==
    \A w \in Workers :
        LET pts == SelectSeq(DeliveredPoints, LAMBDA p : p[1] = w)
            bs == DeliveredOf(w)
        IN /\ Len(pts) <= Len(nodes[w])
           /\ pts = [i \in 1..Len(pts) |-> <<w, i>>]
           /\ Len(bs) <= Len(sent[w])
           /\ bs = SubSeq(sent[w], 1, Len(bs))

C12_Witness ==
    /\ Len(nodes) >= 2
    /\ Len(delivered) >= 3
    /\ \E w \in Workers :
          /\ Len(DeliveredOf(w)) = 2
          /\ delivered[1].position[1][1] = w
          /\ delivered[3].position[1][1] = w


\* C13: with global_from_local set, the position pushed is the inverse of
\* global_from_local applied to the point's global position, and
\* global_from_local applied to it gives the global position back; with
\* global_from_local not set, it is the global position.
C13_RoundTrip ==
    emitted # <<>> =>
        LET e == emitted[1]
        IN IF global_from_local = <<>>
           THEN e.position = e.global
           ELSE /\ e.position = IsoApply(IsoInverse(global_from_local[1]), e.global)
                /\ IsoApply(global_from_local[1], e.position) = e.global

C13_Witness ==
    /\ emitted # <<>>
    /\ global_from_local # <<>>
    /\ global_from_local[1].rot = 1
    /\ global_from_local[1].trans = <<1, 0, -1>>
    /\ emitted[1].global = <<1, 1, 0>>
    /\ emitted[1].position # emitted[1].global


\* C14: a worker whose send fails because the receiver is gone ends without
\* panicking, in the point loop and in the final flush alike.
C14_NoWorkerPanics ==
    [][\A w \in Workers :
         (wpc[w] \in Sending /\ SendFails /\ wpc'[w] # wpc[w])
             => wpc'[w] = "cancelled"]_vars

\* C15: a worker whose send from inside the point loop failed pulls no
\* further point and makes no further send.
C15_StopsAfterLoopSendFails ==
    [][\A w \in Workers :
         /\ (wpc[w] = "send" /\ SendFails /\ wpc'[w] # wpc[w])
                => wpc'[w] = "cancelled"
         /\ wpc[w] = "cancelled"
                => /\ wpc'[w] = "cancelled"
                   /\ next'[w] = next[w]
                   /\ sent'[w] = sent[w]
                   /\ pending'[w] = pending[w]
                   /\ position'[w] = position[w]]_vars

C15_Witness ==
    \E w \in Workers :
        /\ wpc[w] = "cancelled"
        /\ next[w] <= Len(nodes[w])
        /\ cpc = "returned"

\* C16: when the call has returned, every worker has terminated, and no
\* worker takes a step afterwards.
C16_JoinedBeforeReturn ==
    /\ [](cpc = "returned" => AllTerminated)
    /\ [][cpc = "returned" => UNCHANGED <<workerVars, chan>>]_vars

C16_Witness ==
    /\ cpc = "returned"
    /\ outcome = "Err"
    /\ \E w \in Workers : wpc[w] = "cancelled"
    /\ \E w \in Workers : wpc[w] = "done" /\ sent[w] # <<>>

\* C17: a batch is given to func only by the calling thread, one batch at a
\* time, the one it received last, while no worker moves.
C17_OnlyConsumerCallsFunc ==
    [][delivered' # delivered =>
         /\ cpc = "on_batch"
         /\ cpc' # "on_batch"
         /\ delivered' = Append(delivered, cur)
         /\ UNCHANGED workerVars]_vars

C17_Witness ==
    /\ cpc = "on_batch"
    /\ cur.position # <<>>
    /\ \E v, w \in Workers : v # w /\ wpc[v] = "send" /\ wpc[w] = "send_final"

\* C18: a flush with nothing buffered calls no emit: no PointData without
\* points is handed to send, queued, sent or given to func, and a worker
\* whose node yields no point sends nothing.
C18_NoEmptyBatch ==
    /\ \A i \in 1..Len(delivered) : delivered[i].position # <<>>
    /\ \A i \in 1..Len(chan) : chan[i].position # <<>>
    /\ cpc = "on_batch" => cur.position # <<>>
    /\ \A w \in Workers :
          /\ \A i \in 1..Len(sent[w]) : sent[w][i].position # <<>>
          /\ wpc[w] \in Sending => pending[w].position # <<>>
          /\ Len(nodes[w]) = 0 => (sent[w] = <<>> /\ wpc[w] \notin Sending)

C18_Witness ==
    /\ batch_size >= 1
    /\ \E v, w \in Workers :
          /\ wpc[v] = "done" /\ Len(nodes[v]) = 0
          /\ wpc[w] = "done" /\ Len(nodes[w]) = batch_size /\ Len(sent[w]) = 1

\* C19: every batch given to func holds points of one work item only, in
\* its position and in its layers.
C19_OneWorkItemPerBatch ==
    \A i \in 1..Len(delivered) :
        \E w \in Workers :
            /\ \A j \in 1..Len(delivered[i].position) :
                  delivered[i].position[j][1] = w
            /\ \A l \in DOMAIN delivered[i].layers :
                  \A j \in 1..Len(delivered[i].layers[l]) :
                      delivered[i].layers[l][j][1] = w

C19_Witness ==
    /\ Len(delivered) >= 2
    /\ Len(delivered[1].position) = 2
    /\ delivered[1].position[1][1] # delivered[2].position[1][1]

\* The points of the batches worker w has sent.
SentPoints(w) == Concat([i \in 1..Len(sent[w]) |-> sent[w][i].position])

BuffersEmpty(w) == position[w] = <<>> /\ color[w] = <<>> /\ intensity[w] = <<>>

\* C20: a flush with buffered points hands them to emit once, leaving the
\* three buffers empty; when emit fails they stay empty and the points of
\* the failed batch are in no buffer and in no batch sent.
C20_FlushDrainsOnce ==
    \A w \in Workers :
        /\ wpc[w] \in Sending =>
              /\ BuffersEmpty(w)
              /\ pending[w].position # <<>>
        /\ wpc[w] \in {"unspawned", "iter", "send", "send_final", "done"} =>
              Len(SentPoints(w)) + Len(pending[w].position) + Len(position[w])
                  = next[w] - 1
        /\ wpc[w] \in {"cancelled", "panicked"} =>
              /\ BuffersEmpty(w)
              /\ pending[w] = NoBatch
              /\ Len(SentPoints(w)) < next[w] - 1

C20_Witness ==
    \E w \in Workers :
        /\ wpc[w] \in {"cancelled", "panicked"}
        /\ Len(sent[w]) >= 1
        /\ BuffersEmpty(w)
        /\ next[w] - 1 - Len(SentPoints(w)) = 1
        /\ Len(sent[w][1].position) = 2

====
